---------------------------- MODULE Spec2Model ----------------------------
(***************************************************************************)
(* Model of the Heleerra payment gateway client                            *)
(* (examples/python/heleerra_api.py, class HeleerraAPI).                   *)
(*                                                                         *)
(* Python text is a sequence of one-character strings; the tokens          *)
(* "U+0060", "U+00E9" and "U+D800" stand for the single code points        *)
(* U+0060 (grave accent), U+00E9 and the lone surrogate U+D800.  A Python  *)
(* value is a record [t, s, n]: its type name, its text (str values) and   *)
(* its number in hundredths (int and float values).  A call made on the    *)
(* client is recorded in `call`, together with everything it did (handlers *)
(* invoked, HTTP requests sent) and its outcome (a returned value or a     *)
(* raised exception).  Logging is not modelled; the x-webhook-id header    *)
(* and the merchant and API keys only reach log records and request        *)
(* headers and are left out.                                               *)
(***************************************************************************)
EXTENDS Integers, Sequences, FiniteSets, TLC

VARIABLES
    client,     \* the HeleerraAPI object (NoClient before construction)
    ctor,       \* the arguments the constructor was last called with
    call        \* the record of the call just made (NoCall when collected)

vars == <<client, ctor, call>>

----------------------------------------------------------------------------
(* Bounds of the model *)

\* longest raw payload text handed directly to verify_webhook_signature
MaxPayloadLen == 2
\* longest currency_code text tried by the validator
MaxCurrencyLen == 4

----------------------------------------------------------------------------
(* Python values *)

PyStr(s)   == [t |-> "str",      s |-> s,    n |-> 0]
PyInt(c)   == [t |-> "int",      s |-> <<>>, n |-> c * 100]
PyFloat(h) == [t |-> "float",    s |-> <<>>, n |-> h]
None       == [t |-> "NoneType", s |-> <<>>, n |-> 0]
\* a key that is not in the mapping
Absent     == [t |-> "absent",   s |-> <<>>, n |-> 0]

\* Python truthiness, as `not x` evaluates it
Truthy(v) ==
    CASE v.t = "str"   -> v.s # <<>>
      [] v.t = "int"   -> v.n # 0
      [] v.t = "float" -> v.n # 0
      [] OTHER         -> FALSE

\* All sequences over S of length at most n
RECURSIVE SeqsUpTo(_, _)
SeqsUpTo(S, n) ==
    IF n = 0 THEN {<<>>}
    ELSE LET shorter == SeqsUpTo(S, n - 1)
         IN  shorter \cup {Append(s, c) : s \in shorter, c \in S}

----------------------------------------------------------------------------
(* Characters *)

Printable ==
    <<" ", "!", "\"", "#", "$", "%", "&", "'", "(", ")", "*", "+", ",", "-",
      ".", "/", "0", "1", "2", "3", "4", "5", "6", "7", "8", "9", ":", ";",
      "<", "=", ">", "?", "@", "A", "B", "C", "D", "E", "F", "G", "H", "I",
      "J", "K", "L", "M", "N", "O", "P", "Q", "R", "S", "T", "U", "V", "W",
      "X", "Y", "Z", "[", "\\", "]", "^", "_", "U+0060", "a", "b", "c", "d", "e",
      "f", "g", "h", "i", "j", "k", "l", "m", "n", "o", "p", "q", "r", "s",
      "t", "u", "v", "w", "x", "y", "z", "{", "|", "}", "~">>

NonAscii == {"U+00E9", "U+D800"}

\* the code point of a character
Ord ==
    [c \in {Printable[i] : i \in 1..Len(Printable)} \cup NonAscii |->
        CASE c = "U+00E9" -> 233
          [] c = "U+D800" -> 55296
          [] OTHER -> 31 + CHOOSE i \in 1..Len(Printable) : Printable[i] = c]

IsUpper(c) == Ord[c] >= 65 /\ Ord[c] <= 90
IsLower(c) == Ord[c] >= 97 /\ Ord[c] <= 122

\* str.isalpha() on one character (U+00E9 is a letter, a surrogate is not)
IsAlphaChar(c) == IsUpper(c) \/ IsLower(c) \/ c = "U+00E9"

\* str.lower()
Lower(s) ==
    [i \in 1..Len(s) |->
        IF IsUpper(s[i]) THEN Printable[Ord[s[i]] + 32 - 31] ELSE s[i]]

\* str.upper()
Upper(s) ==
    [i \in 1..Len(s) |->
        IF IsLower(s[i]) THEN Printable[Ord[s[i]] - 32 - 31] ELSE s[i]]

\* str.isalpha(): non-empty and every character alphabetic
IsAlpha(s) == s # <<>> /\ \A i \in 1..Len(s) : IsAlphaChar(s[i])

\* str.startswith(prefix)
StartsWith(s, prefix) ==
    Len(s) >= Len(prefix) /\ SubSeq(s, 1, Len(prefix)) = prefix

\* whether a str holds only ASCII characters
IsAscii(s) == \A i \in 1..Len(s) : Ord[s[i]] < 128

----------------------------------------------------------------------------
(* str.encode, hmac.new(...).hexdigest(), hmac.compare_digest *)

\* the UTF-8 bytes of one code point below U+10000 (surrogates excluded)
Utf8Char(cp) ==
    IF cp < 128 THEN <<cp>>
    ELSE IF cp < 2048 THEN <<192 + (cp \div 64), 128 + (cp % 64)>>
    ELSE <<224 + (cp \div 4096), 128 + ((cp \div 64) % 64), 128 + (cp % 64)>>

IsSurrogate(cp) == cp >= 55296 /\ cp <= 57343

\* the UTF-8 bytes of the characters s[lo..hi], by halving
RECURSIVE Utf8Range(_, _, _)
Utf8Range(s, lo, hi) ==
    IF lo > hi THEN <<>>
    ELSE IF lo = hi THEN Utf8Char(Ord[s[lo]])
    ELSE LET mid == (lo + hi) \div 2
         IN  Utf8Range(s, lo, mid) \o Utf8Range(s, mid + 1, hi)

Utf8Bytes(s) == Utf8Range(s, 1, Len(s))

\* v.encode(utf-8): the bytes, or the exception raised
Utf8Encode(v) ==
    IF v.t # "str" THEN [ok |-> FALSE, exc |-> "AttributeError", bytes |-> <<>>]
    ELSE IF \E i \in 1..Len(v.s) : IsSurrogate(Ord[v.s[i]])
    THEN [ok |-> FALSE, exc |-> "UnicodeEncodeError", bytes |-> <<>>]
    ELSE [ok |-> TRUE, exc |-> "", bytes |-> Utf8Bytes(v.s)]

\* Stand-in for the SHA-256 compression of a byte string: a position-weighted
\* checksum modulo the prime 65521.  Like SHA-256 it is a fixed function of
\* the bytes, and changing one byte always changes it (each weight and each
\* byte difference is non-zero modulo the prime); unlike SHA-256 it is not
\* collision-resistant in general.
RECURSIVE WeightedSum(_, _, _)
WeightedSum(bytes, lo, hi) ==
    IF lo > hi THEN 0
    ELSE IF lo = hi THEN (lo * bytes[lo]) % 65521
    ELSE LET mid == (lo + hi) \div 2
         IN  (WeightedSum(bytes, lo, mid) + WeightedSum(bytes, mid + 1, hi)) % 65521

Digest(bytes) ==
    (WeightedSum(bytes, 1, Len(bytes)) + 251 * Len(bytes) + 1) % 65521

HexDigits ==
    <<"0", "1", "2", "3", "4", "5", "6", "7", "8", "9",
      "a", "b", "c", "d", "e", "f">>

\* hexdigest(): lower-case hexadecimal, fixed width (4 digits here, 64 in SHA-256)
HexDigest(d) ==
    <<HexDigits[((d \div 4096) % 16) + 1], HexDigits[((d \div 256) % 16) + 1],
      HexDigits[((d \div 16) % 16) + 1],   HexDigits[(d % 16) + 1]>>

\* hmac.new(key, msg, hashlib.sha256).hexdigest(): a keyed digest of the message
HmacHexDigest(keyBytes, msgBytes) == HexDigest(Digest(keyBytes \o msgBytes))

\* a comparison that ignores letter case (as a == b.lower() would)
CompareDigestIgnoringCase(a, b) ==
    IF a.t = "str" /\ b.t = "str" /\ IsAscii(a.s) /\ IsAscii(b.s)
    THEN [ok |-> TRUE, exc |-> "", eq |-> (Lower(a.s) = Lower(b.s))]
    ELSE [ok |-> FALSE, exc |-> "TypeError", eq |-> FALSE]

\* hmac.compare_digest(a, b): both str (ASCII only) or TypeError
CompareDigest(a, b) ==
    IF a.t = "str" /\ b.t = "str" /\ IsAscii(a.s) /\ IsAscii(b.s)
    THEN [ok |-> TRUE, exc |-> "", eq |-> (a.s = b.s)]
    ELSE [ok |-> FALSE, exc |-> "TypeError", eq |-> FALSE]

----------------------------------------------------------------------------
(* Text literals of the source and of the inputs tried *)

T_sandbox ==
    <<"s", "a", "n", "d", "b", "o", "x">>
T_production ==
    <<"p", "r", "o", "d", "u", "c", "t", "i", "o", "n">>
T_staging ==
    <<"s", "t", "a", "g", "i", "n", "g">>
T_test_webhook_secret ==
    <<"t", "e", "s", "t", "_", "w", "e", "b", "h", "o", "o", "k", "_", "s",
      "e", "c", "r", "e", "t">>
T_webhook_secret ==
    <<"w", "e", "b", "h", "o", "o", "k", "_", "s", "e", "c", "r", "e", "t">>
T_whsec ==
    <<"w", "h", "s", "e", "c", "_", "1">>
T_completed ==
    <<"c", "o", "m", "p", "l", "e", "t", "e", "d">>
T_failed ==
    <<"f", "a", "i", "l", "e", "d">>
T_cancelled ==
    <<"c", "a", "n", "c", "e", "l", "l", "e", "d">>
T_expired ==
    <<"e", "x", "p", "i", "r", "e", "d">>
T_pending ==
    <<"p", "e", "n", "d", "i", "n", "g">>
T_unknown ==
    <<"u", "n", "k", "n", "o", "w", "n">>
T_http ==
    <<"h", "t", "t", "p">>
T_https_url ==
    <<"h", "t", "t", "p", "s", ":", "/", "/", "a", ".", "i", "o", "/", "o",
      "k">>
T_ftp_url ==
    <<"f", "t", "p", ":", "/", "/", "a", ".", "i", "o">>
J_status_key ==
    <<"\"", "s", "t", "a", "t", "u", "s", "\"", ":", " ">>
J_data_key ==
    <<"\"", "d", "a", "t", "a", "\"", ":", " ">>
J_data_dict ==
    <<"{", "\"", "r", "e", "f", "_", "t", "r", "x", "\"", ":", " ", "\"",
      "T", "1", "\"", ",", " ", "\"", "a", "m", "o", "u", "n", "t", "\"",
      ":", " ", "1", "0", "}">>
J_null ==
    <<"n", "u", "l", "l">>
J_data_str ==
    <<"\"", "o", "o", "p", "s", "\"">>
J_sep ==
    <<",", " ">>
T_order ==
    <<"O", "R", "D", "E", "R", "_", "1">>

----------------------------------------------------------------------------
(* The client object: HeleerraAPI.__init__ *)

NoClient ==
    [constructed |-> FALSE, environment |-> <<>>, webhook_secret |-> None]

\* the outcome of a call: a returned value or a raised exception
Return(v)   == [kind |-> "return", exc |-> "", value |-> v]
Raise(e, m) == [kind |-> "raise", exc |-> e, value |-> m]

\* HeleerraAPI(merchant_key, api_key, environment, webhook_secret):
\* the object built and the outcome of the constructor
HeleerraAPI(environment, webhook_secret) ==
    LET env    == Lower(environment)
        secret == IF ~Truthy(webhook_secret)
                  THEN IF env = T_sandbox
                       THEN PyStr(T_test_webhook_secret)
                       ELSE PyStr(T_webhook_secret)
                  ELSE webhook_secret
    IN  IF env \notin {T_sandbox, T_production}
        THEN [self |-> NoClient,
              outcome |-> Raise("ValueError",
                  "Environment must be either 'sandbox' or 'production'")]
        ELSE [self |-> [constructed |-> TRUE, environment |-> env,
                        webhook_secret |-> secret],
              outcome |-> Return("self")]

----------------------------------------------------------------------------
(* HeleerraAPI.verify_webhook_signature *)

\* the result, and the path taken: the no-secret guard, the except clause
\* (any exception while computing or comparing), or the comparison
verify_webhook_signature(self, payload, signature) ==
    IF ~Truthy(self.webhook_secret)
    THEN [ret |-> FALSE, via |-> "no_secret"]
    ELSE LET key == Utf8Encode(self.webhook_secret)
             msg == Utf8Encode(payload)
         IN  IF ~key.ok \/ ~msg.ok
             THEN [ret |-> FALSE, via |-> "except"]
             ELSE LET expected_signature ==
                          PyStr(HmacHexDigest(key.bytes, msg.bytes))
                      is_valid == CompareDigest(expected_signature, signature)
                  IN  IF ~is_valid.ok
                      THEN [ret |-> FALSE, via |-> "except"]
                      ELSE [ret |-> is_valid.eq, via |-> "compared"]

----------------------------------------------------------------------------
(* Webhook payloads and json.dumps *)

\* The `data` entry of a payload: not there, a mapping, a mapping holding a
\* value json cannot serialise (a Decimal amount), None, or a str.
DataKinds == {"absent", "dict", "decimal_dict", "none", "str"}

\* whether payload.get('data', {}) has a .get method
DataIsMapping(data) == data \in {"absent", "dict", "decimal_dict"}

\* json.dumps(payload) with the default separators; TypeError on a value
\* that is not JSON serialisable
JsonDumps(payload) ==
    LET status == IF payload.status.t = "absent" THEN <<>>
                  ELSE <<J_status_key \o <<"\"">> \o payload.status.s \o <<"\"">> >>
        data   == CASE payload.data = "absent" -> <<>>
                    [] payload.data = "none"   -> <<J_data_key \o J_null>>
                    [] payload.data = "str"    -> <<J_data_key \o J_data_str>>
                    [] OTHER                   -> <<J_data_key \o J_data_dict>>
        items  == status \o data
        body   == CASE Len(items) = 0 -> <<>>
                    [] Len(items) = 1 -> items[1]
                    [] OTHER          -> items[1] \o J_sep \o items[2]
    IN  IF payload.data = "decimal_dict"
        THEN [ok |-> FALSE, exc |-> "TypeError", text |-> <<>>]
        ELSE [ok |-> TRUE, exc |-> "", text |-> <<"{">> \o body \o <<"}">>]

----------------------------------------------------------------------------
(* HeleerraAPI.handle_webhook and the handlers it dispatches to *)

InvalidSignature == [status |-> "error", message |-> "Invalid signature"]
SandboxProcessed ==
    [status |-> "sandbox_processed",
     message |-> "Webhook processed in sandbox mode"]
Processed ==
    [status |-> "processed", message |-> "Webhook processed successfully"]

\* dict.get(key, default): the value when the key is there
Get(v, default) == IF v.t = "absent" THEN default ELSE v

\* what a handler call did: the handlers invoked, in order, and its outcome
_handle_sandbox_webhook(payload) ==
    IF ~DataIsMapping(payload.data)
    THEN [invoked |-> <<"_handle_sandbox_webhook">>,
          outcome |-> Raise("AttributeError", "no attribute 'get'")]
    ELSE [invoked |-> <<"_handle_sandbox_webhook">>,
          outcome |-> Return(SandboxProcessed)]

\* the branch of the if/elif chain taken for a status value
StatusHandler(status) ==
    CASE status = PyStr(T_completed) -> <<"_process_completed_payment">>
      [] status = PyStr(T_failed)    -> <<"_process_failed_payment">>
      [] status = PyStr(T_cancelled) -> <<"_process_cancelled_payment">>
      [] status = PyStr(T_expired)   -> <<"_process_expired_payment">>
      [] OTHER                       -> <<>>

_handle_production_webhook(payload) ==
    LET status == Get(payload.status, PyStr(T_unknown))
    IN  IF ~DataIsMapping(payload.data)
        THEN [invoked |-> <<"_handle_production_webhook">>,
              outcome |-> Raise("AttributeError", "no attribute 'get'")]
        ELSE [invoked |-> <<"_handle_production_webhook">> \o StatusHandler(status),
              outcome |-> Return(Processed)]

\* a branch test that ignores letter case (environment.lower() == 'sandbox')
IsSandboxIgnoringCase(environment) ==
    environment.t = "str" /\ Lower(environment.s) = T_sandbox

\* `environment == 'sandbox'`, the test that selects the branch
IsSandboxEnvironment(environment) == environment = PyStr(T_sandbox)

\* a dispatcher that checks the signature on the production branch only
handle_webhook_SandboxUnverified(self, payload, headers) ==
    LET signature   == Get(headers.x_signature, PyStr(<<>>))
        environment == Get(headers.x_environment, PyStr(T_production))
        dumped      == JsonDumps(payload)
        verified    == verify_webhook_signature(self, PyStr(dumped.text), signature)
    IN  IF ~dumped.ok
        THEN [verified |-> "not_called", invoked |-> <<>>,
              outcome |-> Raise(dumped.exc, "not JSON serializable")]
        ELSE IF IsSandboxEnvironment(environment)
        THEN [verified |-> "not_called",
              invoked |-> _handle_sandbox_webhook(payload).invoked,
              outcome |-> _handle_sandbox_webhook(payload).outcome]
        ELSE IF ~verified.ret
        THEN [verified |-> "false", invoked |-> <<>>,
              outcome |-> Return(InvalidSignature)]
        ELSE [verified |-> "true",
              invoked |-> _handle_production_webhook(payload).invoked,
              outcome |-> _handle_production_webhook(payload).outcome]

\* the handlers invoked, whether the signature check ran and what it said,
\* and the outcome
handle_webhook(self, payload, headers) ==
    LET signature   == Get(headers.x_signature, PyStr(<<>>))
        environment == Get(headers.x_environment, PyStr(T_production))
        dumped      == JsonDumps(payload)
        verified    == verify_webhook_signature(self, PyStr(dumped.text), signature)
        handled     == IF IsSandboxEnvironment(environment)
                       THEN _handle_sandbox_webhook(payload)
                       ELSE _handle_production_webhook(payload)
    IN  IF ~dumped.ok
        THEN [verified |-> "not_called", invoked |-> <<>>,
              outcome |-> Raise(dumped.exc, "not JSON serializable")]
        ELSE IF ~verified.ret
        THEN [verified |-> "false", invoked |-> <<>>,
              outcome |-> Return(InvalidSignature)]
        ELSE [verified |-> "true", invoked |-> handled.invoked,
              outcome |-> handled.outcome]

----------------------------------------------------------------------------
(* Inputs tried by the webhook operations *)

StatusValues ==
    {Absent} \cup
    {PyStr(w) : w \in {T_completed, T_failed, T_cancelled, T_expired,
                       T_pending, Upper(T_completed)}}

Payloads == [status : StatusValues, data : DataKinds]

KnownSecrets == {T_test_webhook_secret, T_webhook_secret, T_whsec}

\* the signature a sender holding `secret` computes over `text`
Sign(secret, text) == HmacHexDigest(Utf8Bytes(secret), Utf8Bytes(text))

\* `sig` with its i-th hexadecimal digit replaced by the next digit
MutateHex(sig, i) ==
    LET d == CHOOSE k \in 1..16 : HexDigits[k] = sig[i]
    IN  [sig EXCEPT ![i] = HexDigits[(d % 16) + 1]]

\* x-signature values: none, a non-ASCII str, and for every known secret the
\* signature of `text`, its upper-case rendering and one-digit mutations
SignatureValues(text) ==
    {Absent, PyStr(<<"U+00E9">>)} \cup
    UNION {{PyStr(Sign(k, text)), PyStr(Upper(Sign(k, text))),
            PyStr(MutateHex(Sign(k, text), 1)),
            PyStr(MutateHex(Sign(k, text), 4))} : k \in KnownSecrets}

EnvironmentHeaders ==
    {Absent, PyStr(T_sandbox), PyStr(Upper(T_sandbox)), PyStr(T_production),
     PyStr(T_staging)}

\* payload texts handed to verify_webhook_signature: None, short texts (with
\* non-ASCII and unencodable characters) and serialised webhook payloads
RawPayloads ==
    {None} \cup
    {PyStr(s) : s \in SeqsUpTo({"a", "b", "U+00E9", "U+D800"}, MaxPayloadLen)} \cup
    {PyStr(JsonDumps(p).text) : p \in {q \in Payloads : JsonDumps(q).ok}}

----------------------------------------------------------------------------
(* Actions *)

NoCall == [op |-> "none"]

NoArgs == [environment |-> <<>>, webhook_secret |-> None]

Init == client = NoClient /\ ctor = NoArgs /\ call = NoCall

\* api = HeleerraAPI(..., environment, webhook_secret)
Construct ==
    /\ ~client.constructed
    /\ call.op = "none"
    /\ \E environment \in {T_sandbox, Upper(T_sandbox), T_production, T_staging},
          webhook_secret \in {None, PyStr(<<>>), PyStr(T_whsec)} :
         LET r == HeleerraAPI(environment, webhook_secret)
         IN  /\ client' = r.self
             /\ ctor' = [environment |-> environment,
                         webhook_secret |-> webhook_secret]
             /\ call' = [op |-> "__init__", outcome |-> r.outcome]

\* api.verify_webhook_signature(payload, signature)
VerifyWebhookSignature ==
    /\ client.constructed
    /\ call.op = "none"
    /\ \E payload \in RawPayloads :
         \E signature \in {Get(v, PyStr(<<>>)) : v \in SignatureValues(payload.s)} :
           LET r == verify_webhook_signature(client, payload, signature)
           IN  call' = [op |-> "verify_webhook_signature", payload |-> payload,
                        signature |-> signature, via |-> r.via,
                        outcome |-> Return(r.ret)]
    /\ UNCHANGED <<client, ctor>>

\* api.handle_webhook(payload, headers)
HandleWebhook ==
    /\ client.constructed
    /\ call.op = "none"
    /\ \E payload \in Payloads :
         \E headers \in [x_signature : SignatureValues(JsonDumps(payload).text),
                         x_environment : EnvironmentHeaders] :
           LET r == handle_webhook(client, payload, headers)
           IN  call' = [op |-> "handle_webhook", payload |-> payload,
                        headers |-> headers, verified |-> r.verified,
                        invoked |-> r.invoked, outcome |-> r.outcome]
    /\ UNCHANGED <<client, ctor>>

\* the caller takes the outcome; the client is ready for the next call
ReturnToCaller ==
    /\ call.op # "none"
    /\ call' = NoCall
    /\ UNCHANGED <<client, ctor>>

Next == Construct \/ VerifyWebhookSignature \/ HandleWebhook \/ ReturnToCaller

Spec == Init /\ [][Next]_vars

----------------------------------------------------------------------------
(* HeleerraAPI._validate_payment_data *)

\* `field not in payment_data or not payment_data[field]`
MissingOrEmpty(v) == v.t = "absent" \/ ~Truthy(v)

\* isinstance(amount, (int, float))
IsNumber(v) == v.t \in {"int", "float"}

UrlFields == <<"success_redirect", "failure_url", "cancel_redirect", "ipn_url">>

\* the loop over url_fields from the i-th field on: the first exception raised
RECURSIVE ValidateUrls(_, _)
ValidateUrls(payment_data, i) ==
    IF i > Len(UrlFields) THEN Return("None")
    ELSE LET url == payment_data[UrlFields[i]]
         IN  IF url.t # "absent" /\ Truthy(url)
             THEN IF url.t # "str"
                  THEN Raise("AttributeError", "no attribute 'startswith'")
                  ELSE IF ~StartsWith(url.s, T_http)
                  THEN Raise("ValueError", "must be a valid URL")
                  ELSE ValidateUrls(payment_data, i + 1)
             ELSE ValidateUrls(payment_data, i + 1)

_validate_payment_data(payment_data) ==
    LET amount   == payment_data.payment_amount
        currency == payment_data.currency_code
    IN  IF \/ MissingOrEmpty(payment_data.payment_amount)
           \/ MissingOrEmpty(payment_data.currency_code)
           \/ MissingOrEmpty(payment_data.ref_trx)
        THEN Raise("ValueError", "Required field is missing or empty")
        ELSE IF ~IsNumber(amount) \/ amount.n < 100
        THEN Raise("ValueError",
                   "Payment amount must be a number and at least 1.00")
        ELSE IF currency.t # "str"
        THEN Raise("TypeError", "object has no len()")
        ELSE IF Len(currency.s) # 3 \/ ~IsAlpha(currency.s)
        THEN Raise("ValueError",
                   "Currency code must be a 3-letter code (e.g., USD)")
        ELSE ValidateUrls(payment_data, 1)

----------------------------------------------------------------------------
(* The remote API as seen through requests.post / requests.get *)

Missing == "<missing>"

\* response bodies: nothing, a JSON object (with or without message and
\* error_code), a JSON array, or text that is not JSON
Bodies ==
    {[kind |-> "empty",  message |-> Missing, error_code |-> Missing],
     [kind |-> "object", message |-> "Insufficient funds",
      error_code |-> "INSUFFICIENT_FUNDS"],
     [kind |-> "object", message |-> "Insufficient funds",
      error_code |-> Missing],
     [kind |-> "object", message |-> Missing, error_code |-> Missing],
     [kind |-> "array",  message |-> Missing, error_code |-> Missing],
     [kind |-> "html",   message |-> Missing, error_code |-> Missing]}

\* what the transport does with a request: fail at network level, or answer
HttpReplies ==
    {[net |-> e, status_code |-> 0,
      body |-> [kind |-> "empty", message |-> Missing, error_code |-> Missing]]
        : e \in {"ConnectionError", "Timeout"}} \cup
    [net : {"ok"}, status_code : {200, 402, 500}, body : Bodies]

\* Response.raise_for_status(): HTTPError for 4xx and 5xx
RaisesForStatus(reply) == reply.status_code >= 400 /\ reply.status_code < 600

\* error_data.get(key, default)
DictGet(d, key, default) == IF d[key] = Missing THEN default ELSE d[key]

\* the try/except around the request, shared by initiate_payment and
\* verify_payment: `what` is "Payment initiation failed" or
\* "Payment verification failed"
RequestOutcome(reply, what) ==
    IF reply.net # "ok"
    THEN Raise(reply.net, <<"transport error">>)
    ELSE IF RaisesForStatus(reply)
    THEN CASE reply.body.kind = "html"  -> Raise("JSONDecodeError", <<"not JSON">>)
           [] reply.body.kind = "array" -> Raise("AttributeError", <<"no attribute 'get'">>)
           [] OTHER ->
                Raise("RequestException", <<what, DictGet(reply.body, "message", what)>>)
    ELSE CASE reply.body.kind \in {"html", "empty"} ->
                Raise("JSONDecodeError", <<"not JSON">>)
           [] OTHER -> Return(reply.body)

----------------------------------------------------------------------------
(* HeleerraAPI.initiate_payment and HeleerraAPI.verify_payment *)

\* a version that sends the request before it looks at the validator's verdict
initiate_payment_PostFirst(self, payment_data, reply) ==
    LET validation == _validate_payment_data(payment_data)
    IN  [steps |-> <<"requests.post", "_validate_payment_data">>,
         requests |-> <<[method |-> "POST",
                         url |-> "/api/v1/initiate-payment",
                         x_environment |-> self.environment,
                         json |-> payment_data]>>,
         validation |-> validation,
         outcome |-> IF validation.kind = "raise" THEN validation
                     ELSE RequestOutcome(reply, "Payment initiation failed")]

\* the steps taken in order, the HTTP requests sent, the validator's outcome
\* and the outcome of the call
initiate_payment(self, payment_data, reply) ==
    LET validation == _validate_payment_data(payment_data)
    IN  IF validation.kind = "raise"
        THEN [steps |-> <<"_validate_payment_data">>, requests |-> <<>>,
              validation |-> validation, outcome |-> validation]
        ELSE [steps |-> <<"_validate_payment_data", "requests.post">>,
              requests |-> <<[method |-> "POST",
                              url |-> "/api/v1/initiate-payment",
                              x_environment |-> self.environment,
                              json |-> payment_data]>>,
              validation |-> validation,
              outcome |-> RequestOutcome(reply, "Payment initiation failed")]

verify_payment(self, transaction_id, reply) ==
    [steps |-> <<"requests.get">>,
     requests |-> <<[method |-> "GET",
                     url |-> <<"/api/v1/verify-payment/", transaction_id>>,
                     x_environment |-> self.environment]>>,
     outcome |-> RequestOutcome(reply, "Payment verification failed")]

----------------------------------------------------------------------------
(* Inputs tried by the payment operations *)

Amounts ==
    {Absent, PyInt(0), PyFloat(99), PyFloat(100), PyInt(250), PyStr(<<"1", "0">>)}

Currencies ==
    {Absent, PyInt(840)} \cup
    {PyStr(c) : c \in SeqsUpTo({"U", "5"}, MaxCurrencyLen)}

References == {Absent, PyStr(<<>>), PyStr(T_order)}

Urls == {Absent, PyStr(<<>>), PyStr(T_https_url), PyStr(T_ftp_url), PyInt(8080)}

PaymentData ==
    [payment_amount : Amounts, currency_code : Currencies, ref_trx : References,
     success_redirect : Urls, failure_url : Urls, cancel_redirect : Urls,
     ipn_url : Urls]

\* the reply is only consulted when a request is sent
NoReply ==
    [net |-> "unused", status_code |-> 0,
     body |-> [kind |-> "empty", message |-> Missing, error_code |-> Missing]]

----------------------------------------------------------------------------
(* Actions of the payment operations *)

\* a client as the constructor leaves it
PayInit ==
    /\ \E e \in {T_sandbox, T_production} :
         /\ client = HeleerraAPI(e, None).self
         /\ ctor = [environment |-> e, webhook_secret |-> None]
    /\ call = NoCall

\* api.initiate_payment(payment_data)
InitiatePayment ==
    /\ client.constructed
    /\ call.op = "none"
    /\ \E payment_data \in PaymentData :
         \E reply \in IF _validate_payment_data(payment_data).kind = "return"
                      THEN HttpReplies ELSE {NoReply} :
           LET r == initiate_payment(client, payment_data, reply)
           IN  call' = [op |-> "initiate_payment", payment_data |-> payment_data,
                        reply |-> reply, steps |-> r.steps,
                        requests |-> r.requests, validation |-> r.validation,
                        outcome |-> r.outcome]
    /\ UNCHANGED <<client, ctor>>

\* api.verify_payment(transaction_id)
VerifyPayment ==
    /\ client.constructed
    /\ call.op = "none"
    /\ \E transaction_id \in {"TXNQ5V8K2L9N3XM1", ""}, reply \in HttpReplies :
         LET r == verify_payment(client, transaction_id, reply)
         IN  call' = [op |-> "verify_payment", transaction_id |-> transaction_id,
                      reply |-> reply, steps |-> r.steps,
                      requests |-> r.requests, outcome |-> r.outcome]
    /\ UNCHANGED <<client, ctor>>

PayNext == InitiatePayment \/ VerifyPayment \/ ReturnToCaller

PaySpec == PayInit /\ [][PayNext]_vars

----------------------------------------------------------------------------
(* Properties of the webhook operations, checked under Spec *)

StatusHandlers ==
    {"_process_completed_payment", "_process_failed_payment",
     "_process_cancelled_payment", "_process_expired_payment"}

Invoked == {call.invoked[i] : i \in 1..Len(call.invoked)}

\* the x-signature the dispatcher reads from the headers of the call
SignatureHeader == Get(call.headers.x_signature, PyStr(<<>>))

\* what verify_webhook_signature says about the webhook of the call
WebhookVerdict ==
    verify_webhook_signature(client, PyStr(JsonDumps(call.payload).text),
                             SignatureHeader)

WebhookRejected ==
    call.op = "handle_webhook" /\ JsonDumps(call.payload).ok /\ ~WebhookVerdict.ret

WebhookVerified ==
    call.op = "handle_webhook" /\ JsonDumps(call.payload).ok /\ WebhookVerdict.ret

\* C1: when verify_webhook_signature rejects the x-signature of a webhook (an
\* absent header included), handle_webhook returns exactly
\* {status: error, message: Invalid signature} and invokes no handler at all.
C1_RejectedSignatureShortCircuits ==
    WebhookRejected =>
        /\ call.outcome.kind = "return"
        /\ call.outcome.value = InvalidSignature
        /\ call.invoked = <<>>

\* a completed-payment webhook without x-signature header was turned away
C1_Witness ==
    /\ WebhookRejected
    /\ call.headers.x_signature = Absent
    /\ call.payload.status = PyStr(T_completed)
    /\ call.outcome.value = InvalidSignature

\* texts that differ from p in exactly one character
PayloadMutations(p) ==
    {[p EXCEPT ![i] = c] : i \in 1..Len(p), c \in {"a", "b", "0", "{"}} \ {p}

\* signatures that differ from g in exactly one hexadecimal digit
SignatureMutations(g) ==
    {[g EXCEPT ![i] = HexDigits[k]] : i \in 1..Len(g), k \in 1..16} \ {g}

\* the hex HMAC of the payload of the call under the client's secret
ExpectedSignature ==
    HmacHexDigest(Utf8Bytes(client.webhook_secret.s), Utf8Bytes(call.payload.s))

\* C2: verify_webhook_signature returns true exactly when the signature is
\* the hex HMAC of the payload under the client's secret, and returns false
\* for that payload or that signature changed in a single byte.
C2_TrueExactlyOnMatchingSignature ==
    call.op = "verify_webhook_signature" =>
        /\ call.outcome.value <=>
              (/\ Utf8Encode(call.payload).ok
               /\ call.signature.t = "str"
               /\ call.signature.s = ExpectedSignature)
        /\ call.outcome.value =>
              /\ \A q \in PayloadMutations(call.payload.s) :
                    ~verify_webhook_signature(client, PyStr(q), call.signature).ret
              /\ \A g \in SignatureMutations(call.signature.s) :
                    ~verify_webhook_signature(client, call.payload, PyStr(g)).ret

\* a serialised webhook payload was accepted with its signature
C2_Witness ==
    /\ call.op = "verify_webhook_signature"
    /\ call.outcome.value
    /\ Len(call.payload.s) > MaxPayloadLen
    /\ call.signature.s = ExpectedSignature

\* C3: a verified webhook whose x-environment header is sandbox invokes no
\* production status handler and returns the fixed sandbox result, whatever
\* its status.
C3_SandboxAlwaysFixedResult ==
    (WebhookVerified /\ call.headers.x_environment = PyStr(T_sandbox)) =>
        /\ Invoked \cap StatusHandlers = {}
        /\ call.outcome.kind = "return"
        /\ call.outcome.value = SandboxProcessed

\* C4: on the production branch a verified webhook with one of the four
\* statuses invokes exactly the matching status handler, once; any other
\* status invokes none; the result is {status: processed} in both cases.
C4_ProductionDispatchesOnce ==
    (WebhookVerified /\ call.headers.x_environment # PyStr(T_sandbox)) =>
        /\ SelectSeq(call.invoked, LAMBDA h : h \in StatusHandlers)
              = StatusHandler(Get(call.payload.status, PyStr(T_unknown)))
        /\ (call.payload.status \in {PyStr(T_completed), PyStr(T_failed),
                                     PyStr(T_cancelled), PyStr(T_expired)}
              => Cardinality(Invoked \cap StatusHandlers) = 1)
        /\ call.outcome.kind = "return"
        /\ call.outcome.value.status = "processed"

\* C7: handle_webhook returns a {status, message} result for every payload
\* and every headers mapping; it never raises.
C7_HandleWebhookNeverRaises ==
    call.op = "handle_webhook" => call.outcome.kind = "return"

\* C8: verify_webhook_signature returns false whenever the client was given
\* no webhook secret or an exception occurred while computing or comparing.
C8_FalseWithoutConfiguredSecret ==
    (/\ call.op = "verify_webhook_signature"
     /\ (~Truthy(ctor.webhook_secret) \/ call.via = "except"))
        => (call.outcome.kind = "return" /\ call.outcome.value = FALSE)

\* C10: a verified webhook takes the sandbox branch exactly when its
\* x-environment header equals 'sandbox'; with the header absent or of any
\* other value or letter case it takes the production branch, whatever
\* environment the client was constructed with.
C10_BranchFollowsHeaderOnly ==
    WebhookVerified =>
        /\ Len(call.invoked) >= 1
        /\ call.invoked[1] =
              IF call.headers.x_environment = PyStr(T_sandbox)
              THEN "_handle_sandbox_webhook"
              ELSE "_handle_production_webhook"

\* a sandbox client ran the completed-payment handler for a webhook whose
\* header says SANDBOX in capitals
C10_Witness ==
    /\ WebhookVerified
    /\ client.environment = T_sandbox
    /\ call.headers.x_environment = PyStr(Upper(T_sandbox))
    /\ "_process_completed_payment" \in Invoked

----------------------------------------------------------------------------
(* Properties of the payment operations, checked under PaySpec *)

\* the position of a step in the steps of the call (0 when it was not taken)
StepIndex(name) ==
    IF \E i \in 1..Len(call.steps) : call.steps[i] = name
    THEN CHOOSE i \in 1..Len(call.steps) : call.steps[i] = name
    ELSE 0

\* C5: in initiate_payment validation precedes the network call: an input the
\* validator rejects raises the validator's error and sends no HTTP request;
\* a POST is sent only after that same input passed validation.
C5_ValidationPrecedesRequest ==
    call.op = "initiate_payment" =>
        LET verdict == _validate_payment_data(call.payment_data)
        IN  /\ verdict.kind = "raise" =>
                 /\ call.outcome = verdict
                 /\ call.requests = <<>>
                 /\ StepIndex("requests.post") = 0
            /\ call.requests # <<>> =>
                 /\ verdict.kind = "return"
                 /\ Len(call.requests) = 1
                 /\ call.requests[1].method = "POST"
                 /\ call.requests[1].json = call.payment_data
                 /\ StepIndex("_validate_payment_data") >= 1
                 /\ StepIndex("_validate_payment_data") < StepIndex("requests.post")

\* an otherwise valid payment of 0.99 was refused with ValueError and nothing
\* was sent
C5_Witness ==
    /\ call.op = "initiate_payment"
    /\ call.payment_data.payment_amount = PyFloat(99)
    /\ call.payment_data.currency_code = PyStr(<<"U", "U", "U">>)
    /\ call.payment_data.ref_trx = PyStr(T_order)
    /\ call.payment_data.ipn_url = PyStr(T_https_url)
    /\ call.outcome.kind = "raise"
    /\ call.outcome.exc = "ValueError"
    /\ call.steps = <<"_validate_payment_data">>
    /\ call.requests = <<>>

\* a URL field that is provided: present and not empty
Provided(v) == v.t # "absent" /\ Truthy(v)

\* the conditions under which the validator is said to fail
ValidationMustFail(payment_data) ==
    \/ MissingOrEmpty(payment_data.payment_amount)
    \/ MissingOrEmpty(payment_data.currency_code)
    \/ MissingOrEmpty(payment_data.ref_trx)
    \/ ~IsNumber(payment_data.payment_amount)
    \/ payment_data.payment_amount.n < 100
    \/ ~(/\ payment_data.currency_code.t = "str"
         /\ Len(payment_data.currency_code.s) = 3
         /\ \A i \in 1..Len(payment_data.currency_code.s) :
               IsAlphaChar(payment_data.currency_code.s[i]))
    \/ \E i \in 1..Len(UrlFields) :
          /\ Provided(payment_data[UrlFields[i]])
          /\ ~(/\ payment_data[UrlFields[i]].t = "str"
               /\ StartsWith(payment_data[UrlFields[i]].s, T_http))

\* C6: the validator fails with ValueError if and only if a required field
\* is missing or empty, the amount is not a number or below 1.00, the
\* currency code is not exactly 3 alphabetic characters, or a provided URL
\* field does not start with http; the client is left as it was.
C6_ValueErrorExactlyOnInvalidData ==
    call.op = "initiate_payment" =>
        /\ (call.validation.kind = "raise" /\ call.validation.exc = "ValueError")
              <=> ValidationMustFail(call.payment_data)
        /\ call.validation.kind = "return"
              <=> ~ValidationMustFail(call.payment_data)

\* C9: when the remote API answers initiate_payment or verify_payment with an
\* HTTP error status, the error raised wraps both the message and the error
\* code of the response body (defaults when it has none); a network failure
\* is raised unchanged; no result is returned in either case.
C9_HttpErrorWrapsMessageAndCode ==
    (call.op \in {"initiate_payment", "verify_payment"} /\ call.requests # <<>>) =>
        LET what == IF call.op = "initiate_payment"
                    THEN "Payment initiation failed"
                    ELSE "Payment verification failed"
            args == {call.outcome.value[i] : i \in 1..Len(call.outcome.value)}
        IN  /\ call.reply.net # "ok" =>
                 call.outcome = Raise(call.reply.net, <<"transport error">>)
            /\ (call.reply.net = "ok" /\ RaisesForStatus(call.reply)) =>
                 /\ call.outcome.kind = "raise"
                 /\ DictGet(call.reply.body, "message", what) \in args
                 /\ DictGet(call.reply.body, "error_code", "UNKNOWN_ERROR") \in args

============================================================================
